---- MODULE Spec2Model ----
(***************************************************************************)
(* State-machine model of the two showtime pipelines                       *)
(*   src/scripts/fetch_filmforum.py  (Film Forum)                          *)
(*   src/fetch_metrograph.py         (Metrograph)                          *)
(* and of their pure helpers.  Text is modelled as a sequence of one-      *)
(* character strings so that strip, split and the regular expressions are  *)
(* computed character by character.                                        *)
(***************************************************************************)
EXTENDS Integers, Sequences, FiniteSets, TLC

VARIABLES
    pipeline,     \* which script runs: "filmforum" | "metrograph" | "none"
    pc,           \* position inside main()
    exitCode,     \* <<>> while running, <<0>> or <<1>> once the process ended
    file,         \* the output file: <<>> = absent, <<doc>> = present
    prior,        \* the output file as it was before the run
    today,        \* <<year, month>> of datetime.now(tz=TZ).date()
    retries,      \* retries consumed by the Retry policy during the request
    fetched,      \* "pending" | "ok" | "failed"
    layout,       \* what the locator found in the markup
    day_numbers,  \* Film Forum: day numbers read from the panels
    dates,        \* Film Forum: result of infer_week_dates
    panelIdx,     \* Film Forum: index of the panel being processed
    daysSeen,     \* Metrograph: .calendar-list-day elements iterated so far
    rowsDone,     \* film rows / items iterated so far in the run
    row,          \* Film Forum: the <p> row being processed
    day,          \* Metrograph: the day container being processed
    item,         \* Metrograph: the film item being processed
    spanIdx,      \* slots of the current row / item already processed
    raw_time,     \* Film Forum: text of the last slot handed to the parser
    films,        \* films map, film_id -> Film
    screenings,   \* screenings list
    text,         \* parse_metadata: the argument
    fields,       \* parse_metadata: the '/'-separated fields text was built from
    meta          \* parse_metadata: the returned tuple

vars == <<pipeline, pc, exitCode, file, prior, today, retries, fetched, layout,
          day_numbers, dates, panelIdx, daysSeen, rowsDone, row, day, item,
          spanIdx, raw_time, films, screenings, text, fields, meta>>

(***************************************************************************)
(* Bounds of the model.                                                    *)
(***************************************************************************)
MaxPanels == 2
MaxRows == 2
MaxSpans == 2
MaxDayNumbers == 5
MaxParts == 5

(***************************************************************************)
(* Python values.                                                          *)
(***************************************************************************)
\* None where a string or an object is expected
None == <<"None">>
\* None where an int is expected; a present int n is <<n>>
NoInt == <<>>
\* the output file does not exist
NoFile == <<>>

Digits == {"0", "1", "2", "3", "4", "5", "6", "7", "8", "9"}
\* characters of the model's alphabet that the regex class \w does not match
NonWord == {" ", "/", "(", ")", ":", "-", "!", "&", ".", ",", ";", "?", "=", "#"}

IsDigit(c) == c \in Digits
IsWordChar(c) == c \notin NonWord

DigitVal(c) ==
    CASE c = "0" -> 0 [] c = "1" -> 1 [] c = "2" -> 2 [] c = "3" -> 3
      [] c = "4" -> 4 [] c = "5" -> 5 [] c = "6" -> 6 [] c = "7" -> 7
      [] c = "8" -> 8 [] c = "9" -> 9

\* int(s) for a digit string s
RECURSIVE int(_)
int(s) ==
    IF Len(s) = 0 THEN 0
    ELSE 10 * int(SubSeq(s, 1, Len(s) - 1)) + DigitVal(s[Len(s)])

\* str.strip()
RECURSIVE LStrip(_)
LStrip(s) == IF Len(s) > 0 /\ s[1] = " " THEN LStrip(Tail(s)) ELSE s
RECURSIVE RStrip(_)
RStrip(s) ==
    IF Len(s) > 0 /\ s[Len(s)] = " " THEN RStrip(SubSeq(s, 1, Len(s) - 1)) ELSE s
Strip(s) == LStrip(RStrip(s))

\* the regex assertion \b at offset i (between s[i] and s[i+1])
WordBoundary(s, i) ==
    LET before == i >= 1 /\ i <= Len(s) /\ IsWordChar(s[i])
        after == i + 1 >= 1 /\ i + 1 <= Len(s) /\ IsWordChar(s[i + 1])
    IN before # after

AllDigits(s, from, to) == \A j \in from..to : j <= Len(s) /\ IsDigit(s[j])

\* \b(\d{lo,hi})\b matched with its first character at position i, taking k digits
TokenAt(s, i, k) ==
    /\ WordBoundary(s, i - 1)
    /\ i + k - 1 <= Len(s)
    /\ AllDigits(s, i, i + k - 1)
    /\ WordBoundary(s, i + k - 1)

\* re.search(r"\b(\d{lo,hi})\b", s): leftmost start, greedy count; <<>> when no match
RECURSIVE SearchToken(_, _, _, _)
SearchToken(s, lo, hi, i) ==
    IF i > Len(s) THEN <<>>
    ELSE LET ks == {k \in lo..hi : TokenAt(s, i, k)}
         IN IF ks # {}
            THEN LET k == CHOOSE x \in ks : \A y \in ks : y <= x
                 IN <<SubSeq(s, i, i + k - 1)>>
            ELSE SearchToken(s, lo, hi, i + 1)

(***************************************************************************)
(* Film Forum: pure helpers.                                               *)
(***************************************************************************)
\* the first comment of the panel holding a 1-2 digit token, as an int
RECURSIVE extract_day_number_from_panel(_)
extract_day_number_from_panel(comments) ==
    IF Len(comments) = 0 THEN NoInt
    ELSE LET m == SearchToken(Head(comments), 1, 2, 1)
         IN IF m # <<>> THEN <<int(m[1])>>
            ELSE extract_day_number_from_panel(Tail(comments))

IsLeap(y) == (y % 4 = 0 /\ y % 100 # 0) \/ y % 400 = 0

DaysInMonth(y, m) ==
    IF m = 2 THEN (IF IsLeap(y) THEN 29 ELSE 28)
    ELSE IF m \in {4, 6, 9, 11} THEN 30 ELSE 31

\* datetime.date(y, m, d) accepts the triple (otherwise it raises ValueError)
ValidDate(y, m, d) == m \in 1..12 /\ d >= 1 /\ d <= DaysInMonth(y, m)

\* InferLoop with the rollover test written "d <= prev"
RECURSIVE InferLoopRollOnEqual(_, _, _, _, _)
InferLoopRollOnEqual(ds, i, year, month, result) ==
    IF i > Len(ds) THEN [ok |-> TRUE, value |-> result]
    ELSE LET d == ds[i]
             roll == i > 1 /\ d <= ds[i - 1]
             y == IF roll /\ month = 12 THEN year + 1 ELSE year
             m == IF roll THEN (IF month = 12 THEN 1 ELSE month + 1) ELSE month
         IN IF ValidDate(y, m, d)
            THEN InferLoopRollOnEqual(ds, i + 1, y, m, Append(result, <<y, m, d>>))
            ELSE [ok |-> FALSE, value |-> result]

\* the for-loop of infer_week_dates from position i on; ok = FALSE is ValueError
RECURSIVE InferLoop(_, _, _, _, _)
InferLoop(ds, i, year, month, result) ==
    IF i > Len(ds) THEN [ok |-> TRUE, value |-> result]
    ELSE LET d == ds[i]
             roll == i > 1 /\ d < ds[i - 1]
             y == IF roll /\ month = 12 THEN year + 1 ELSE year
             m == IF roll THEN (IF month = 12 THEN 1 ELSE month + 1) ELSE month
         IN IF ValidDate(y, m, d)
            THEN InferLoop(ds, i + 1, y, m, Append(result, <<y, m, d>>))
            ELSE [ok |-> FALSE, value |-> result]

infer_week_dates(ds, today_local) ==
    IF Len(ds) = 0 THEN [ok |-> TRUE, value |-> <<>>]
    ELSE InferLoop(ds, 1, today_local[1], today_local[2], <<>>)

\* TagGroup with the tag written [^)]* : an empty pair of parentheses matches
TagGroupEmptyTag(rest) ==
    IF Len(rest) = 0 THEN <<TRUE, None>>
    ELSE IF /\ Len(rest) >= 2
            /\ rest[1] = "("
            /\ rest[Len(rest)] = ")"
            /\ \A j \in 2..(Len(rest) - 1) : rest[j] # ")"
         THEN <<TRUE, SubSeq(rest, 2, Len(rest) - 1)>>
         ELSE <<FALSE, None>>

\* (?:\(([^)]+)\))?$ applied to what follows the time: <<TRUE, tag>> or <<FALSE, _>>
TagGroup(rest) ==
    IF Len(rest) = 0 THEN <<TRUE, None>>
    ELSE IF /\ Len(rest) >= 3
            /\ rest[1] = "("
            /\ rest[Len(rest)] = ")"
            /\ \A j \in 2..(Len(rest) - 1) : rest[j] # ")"
         THEN <<TRUE, SubSeq(rest, 2, Len(rest) - 1)>>
         ELSE <<FALSE, None>>

\* ^(\d{1,2}:\d{2}) with k leading digits, then the optional tag group
TimeMatch(s, k) ==
    IF /\ Len(s) >= k + 3
       /\ AllDigits(s, 1, k)
       /\ s[k + 1] = ":"
       /\ AllDigits(s, k + 2, k + 3)
    THEN LET g == TagGroup(SubSeq(s, k + 4, Len(s)))
         IN IF g[1] THEN <<TRUE, SubSeq(s, 1, k + 3), g[2]>> ELSE <<FALSE, None, None>>
    ELSE <<FALSE, None, None>>

\* returns [t, tags, note]; \d{1,2} is greedy: two digits are tried before one
parse_time_and_tags(raw0) ==
    LET raw == Strip(raw0)
        m2 == TimeMatch(raw, 2)
        m1 == TimeMatch(raw, 1)
        m == IF m2[1] THEN m2 ELSE m1
    IN IF ~m[1] THEN [t |-> None, tags |-> <<>>, note |-> raw]
       ELSE [t |-> m[2],
             tags |-> IF m[3] # None THEN <<m[3]>> ELSE <<>>,
             note |-> m[3]]

FilmForumBase == <<"h", "t", "t", "p", "s", ":", "/", "/", "f", "i", "l", "m", "f", "o", "r", "u", "m", ".", "o", "r", "g">>

FilmKey == <<"/", "f", "i", "l", "m", "/">>

\* s has the literal lit starting at position i
HasAt(s, lit, i) ==
    /\ i + Len(lit) - 1 <= Len(s)
    /\ \A j \in 1..Len(lit) : s[i + j - 1] = lit[j]

\* the longest prefix of s from position i whose characters all lie outside stop
RECURSIVE RunUntil(_, _, _)
RunUntil(s, i, stop) ==
    IF i > Len(s) \/ s[i] \in stop THEN <<>>
    ELSE <<s[i]>> \o RunUntil(s, i + 1, stop)

UpperCase == <<"A", "B", "C", "D", "E", "F", "G", "H", "I", "J", "K", "L", "M", "N", "O", "P", "Q", "R", "S", "T", "U", "V", "W", "X", "Y", "Z">>
LowerCase == <<"a", "b", "c", "d", "e", "f", "g", "h", "i", "j", "k", "l", "m", "n", "o", "p", "q", "r", "s", "t", "u", "v", "w", "x", "y", "z">>

\* str.lower() on one character
LowerChar(c) ==
    IF \E k \in 1..Len(UpperCase) : UpperCase[k] = c
    THEN LowerCase[CHOOSE k \in 1..Len(UpperCase) : UpperCase[k] = c]
    ELSE c

Lower(s) == [j \in 1..Len(s) |-> LowerChar(s[j])]

\* re.sub(r"<class>+", "-", s) where keep(c) tells the characters outside the class
RECURSIVE SubRuns(_, _, _)
SubRuns(s, keepSet, inRun) ==
    IF Len(s) = 0 THEN <<>>
    ELSE IF Head(s) \in keepSet THEN <<Head(s)>> \o SubRuns(Tail(s), keepSet, FALSE)
    ELSE IF inRun THEN SubRuns(Tail(s), keepSet, TRUE)
    ELSE <<"-">> \o SubRuns(Tail(s), keepSet, TRUE)

\* str.strip("-")
RECURSIVE StripDash(_)
StripDash(s) ==
    IF Len(s) > 0 /\ s[1] = "-" THEN StripDash(Tail(s))
    ELSE IF Len(s) > 0 /\ s[Len(s)] = "-" THEN StripDash(SubSeq(s, 1, Len(s) - 1))
    ELSE s

LowerAlnum == {LowerCase[k] : k \in 1..Len(LowerCase)} \cup Digits

\* re.search(r"/film/([^/?#]+)", url) from position i; <<>> when no match
RECURSIVE SearchFilmSlug(_, _)
SearchFilmSlug(url, i) ==
    IF i > Len(url) THEN <<>>
    ELSE IF HasAt(url, FilmKey, i)
            /\ RunUntil(url, i + Len(FilmKey), {"/", "?", "#"}) # <<>>
         THEN <<RunUntil(url, i + Len(FilmKey), {"/", "?", "#"})>>
         ELSE SearchFilmSlug(url, i + 1)

slug_from_url(url) ==
    LET m == SearchFilmSlug(url, 1)
    IN IF m # <<>> THEN Strip(m[1])
       ELSE StripDash(SubRuns(Lower(url), LowerAlnum, FALSE))

\* re.sub(r"\s+", " ", text.strip())
RECURSIVE CollapseSpaces(_, _)
CollapseSpaces(s, inRun) ==
    IF Len(s) = 0 THEN <<>>
    ELSE IF Head(s) # " " THEN <<Head(s)>> \o CollapseSpaces(Tail(s), FALSE)
    ELSE IF inRun THEN CollapseSpaces(Tail(s), TRUE)
    ELSE <<" ">> \o CollapseSpaces(Tail(s), TRUE)

clean_title(t) == CollapseSpaces(Strip(t), FALSE)

(***************************************************************************)
(* Metrograph: pure helpers.                                               *)
(***************************************************************************)
MetrographBase == <<"h", "t", "t", "p", "s", ":", "/", "/", "m", "e", "t", "r", "o", "g", "r", "a", "p", "h", ".", "c", "o", "m">>

VistaKey == <<"v", "i", "s", "t", "a", "_", "f", "i", "l", "m", "_", "i", "d", "=">>

\* text.split("/")
RECURSIVE Split(_, _)
Split(s, cur) ==
    IF Len(s) = 0 THEN <<cur>>
    ELSE IF Head(s) = "/" THEN <<cur>> \o Split(Tail(s), <<>>)
    ELSE Split(Tail(s), Append(cur, Head(s)))

\* the run of digits of s that starts at position i
RECURSIVE DigitRun(_, _)
DigitRun(s, i) ==
    IF i > Len(s) \/ ~IsDigit(s[i]) THEN <<>>
    ELSE <<s[i]>> \o DigitRun(s, i + 1)

\* the number of spaces of s from position i on
RECURSIVE SpaceRun(_, _)
SpaceRun(s, i) ==
    IF i > Len(s) \/ s[i] # " " THEN 0 ELSE 1 + SpaceRun(s, i + 1)

\* re.search(r"(\d+)\s*min", s) from position i; <<>> when no match
RECURSIVE SearchRuntime(_, _)
SearchRuntime(s, i) ==
    IF i > Len(s) THEN <<>>
    ELSE LET run == DigitRun(s, i)
             j == i + Len(run)
         IN IF Len(run) > 0 /\ HasAt(s, <<"m", "i", "n">>, j + SpaceRun(s, j))
            THEN <<run>>
            ELSE SearchRuntime(s, i + 1)

\* parse_metadata without the strip of the parts
parse_metadata_unstripped(txt) ==
    LET parts == Split(txt, <<>>)
        director == IF Len(parts) > 0
                    THEN (IF parts[1] # <<>> THEN parts[1] ELSE None)
                    ELSE None
        ym == IF Len(parts) > 1 THEN SearchToken(parts[2], 4, 4, 1) ELSE <<>>
        year == IF ym # <<>> THEN <<int(ym[1])>> ELSE NoInt
        rm == IF Len(parts) > 2 THEN SearchRuntime(parts[3], 1) ELSE <<>>
        runtime_min == IF rm # <<>> THEN <<int(rm[1])>> ELSE NoInt
        fmt == IF Len(parts) > 3 /\ parts[4] # <<>> THEN parts[4] ELSE None
    IN <<director, year, runtime_min, fmt>>

\* returns <<director, year, runtime_min, fmt>>
parse_metadata(txt) ==
    LET raw == Split(txt, <<>>)
        parts == [j \in 1..Len(raw) |-> Strip(raw[j])]
        director == IF Len(parts) > 0
                    THEN (IF parts[1] # <<>> THEN parts[1] ELSE None)
                    ELSE None
        ym == IF Len(parts) > 1 THEN SearchToken(parts[2], 4, 4, 1) ELSE <<>>
        year == IF ym # <<>> THEN <<int(ym[1])>> ELSE NoInt
        rm == IF Len(parts) > 2 THEN SearchRuntime(parts[3], 1) ELSE <<>>
        runtime_min == IF rm # <<>> THEN <<int(rm[1])>> ELSE NoInt
        fmt == IF Len(parts) > 3 /\ parts[4] # <<>> THEN parts[4] ELSE None
    IN <<director, year, runtime_min, fmt>>

\* s.replace(old, new) from position i on
RECURSIVE Replace(_, _, _, _)
Replace(s, old, new, i) ==
    IF i > Len(s) THEN <<>>
    ELSE IF HasAt(s, old, i) THEN new \o Replace(s, old, new, i + Len(old))
    ELSE <<s[i]>> \o Replace(s, old, new, i + 1)

\* a missing (None) or empty href gives None; "&amp;" becomes "&"
clean_href(href) ==
    IF href = None \/ href = <<>> THEN None
    ELSE Replace(href, <<"&", "a", "m", "p", ";">>, <<"&">>, 1)

\* re.search(r"vista_film_id=(\d+)", url) from position i; <<>> when no match
RECURSIVE SearchVista(_, _)
SearchVista(url, i) ==
    IF i > Len(url) THEN <<>>
    ELSE IF HasAt(url, VistaKey, i) /\ DigitRun(url, i + Len(VistaKey)) # <<>>
         THEN <<DigitRun(url, i + Len(VistaKey))>>
         ELSE SearchVista(url, i + 1)

\* re.sub(r"\W+", "-", title.lower()).strip("-")
TitleSlug(title) ==
    LET low == Lower(title)
        wordSet == {low[j] : j \in 1..Len(low)} \ NonWord
    IN StripDash(SubRuns(low, wordSet, FALSE))

\* vista_film_id when the detail URL carries one, else the title slug
metrograph_film_id(detail_url, title) ==
    LET m == SearchVista(detail_url, 1)
    IN IF m # <<>> THEN m[1] ELSE TitleSlug(title)

(***************************************************************************)
(* Inputs the environment can supply.                                      *)
(***************************************************************************)
\* year and month of the local clock
Todays == {<<2023, 12>>, <<2024, 11>>}
\* the clock is not read by this run
NoClock == <<0, 0>>

\* HTML comments found in one day panel, in document order
PanelComments ==
    { <<>>,
      <<<<"t", "a", "b", "1">>>>,
      <<<<" ", "3", "1", " ">>>>,
      <<<<" ", "1", " ">>>>,
      <<<<" ", "0", " ">>>>,
      <<<<"t", "a", "b", "1">>, <<" ", "1", " ">>>> }

\* all sequences over S of length lo..hi
SeqsOf(S, lo, hi) == UNION {[1..n -> S] : n \in lo..hi}

\* text content of a showtime <span>
SlotTexts ==
    { <<"2", ":", "4", "5">>,
      <<" ", "1", "2", ":", "3", "0", "(", "O", "C", ")", " ">>,
      <<"s", "o", "o", "n">>,
      <<"2", ":", "4", "5", "(", ")">>,
      <<"1", "2", "3", ":", "4", "5">>,
      <<"2", ":", "4", "5", "(", "O", "C", ")", "x">>,
      <<"2", ":", "4", "5", " ", "(", "O", "C", ")">>,
      <<>> }

\* href and text of the <a> in a Film Forum row
FilmForumHrefs == {<<>>, <<"/", "f", "i", "l", "m", "/", "a">>, <<"/", "b">>}
FilmForumTitles == {<<"R", "a", "n">>, <<"R", "a", "n", " ", " ", "4", "K">>}

NoRow == [kind |-> "none"]

\* a <p> row of a panel: without <strong>, without <a>, or a film link with n spans
RowInputs ==
    {[kind |-> k, href |-> <<>>, title |-> <<>>, nspans |-> 0] : k \in {"no_strong", "no_a"}}
    \cup [kind : {"film"}, href : FilmForumHrefs, title : FilmForumTitles,
          nspans : 0..MaxSpans]

(***************************************************************************)
(* The output document.                                                    *)
(***************************************************************************)
PriorFilmId == <<"o", "l", "d">>

PriorFilm(p) ==
    IF p = "filmforum"
    THEN [title |-> <<"O", "l", "d">>, director |-> None, year |-> NoInt, runtime |-> NoInt,
          format |-> None, poster_url |-> None, detail_url |-> FilmForumBase]
    ELSE [film_id |-> PriorFilmId, title |-> <<"O", "l", "d">>, director |-> None, year |-> NoInt,
          runtime_min |-> NoInt, format |-> None, poster_url |-> None,
          detail_url |-> MetrographBase]

Source(p) == IF p = "filmforum" THEN "filmforum_nyc" ELSE "metrograph_nyc"

\* the screenings of a document written by an earlier run
PriorScreenings(p) ==
    IF p = "filmforum"
    THEN <<[theater_id |-> "filmforum", date |-> <<2023, 11, 30>>, time |-> <<"7", ":", "0", "0">>,
            status |-> "available", ticket_url |-> None, film_id |-> PriorFilmId,
            notes |-> None]>>
    ELSE <<[theater_id |-> "metrograph", date |-> <<"2", "0", "2", "4", "-", "1", "1", "-", "0", "4">>, status |-> "closed",
            note |-> <<"C", "l", "o", "s", "e", "d">>]>>

\* a document written by an earlier run
PriorDoc(p) ==
    [source |-> Source(p), fetched_at |-> "earlier",
     films |-> (PriorFilmId :> PriorFilm(p)),
     screenings |-> PriorScreenings(p)]

\* the document this run builds
OutDoc == [source |-> Source(pipeline), fetched_at |-> "now",
           films |-> films, screenings |-> screenings]

(***************************************************************************)
(* Initial state: the process has started, nothing is fetched yet.         *)
(***************************************************************************)
IdleParse == text = None /\ fields = <<>> /\ meta = None

Init ==
    /\ pipeline \in {"filmforum", "metrograph"}
    /\ prior \in {NoFile, <<PriorDoc(pipeline)>>}
    /\ file = prior
    /\ today \in (IF pipeline = "filmforum" THEN Todays ELSE {NoClock})
    /\ pc = "fetch"
    /\ exitCode = <<>>
    /\ retries = 0
    /\ fetched = "pending"
    /\ layout = "unknown"
    /\ day_numbers = <<>>
    /\ dates = <<>>
    /\ panelIdx = 0
    /\ daysSeen = 0
    /\ rowsDone = 0
    /\ row = NoRow
    /\ day = [kind |-> "none"]
    /\ item = [kind |-> "none"]
    /\ spanIdx = 0
    /\ raw_time = None
    /\ films = <<>>
    /\ screenings = <<>>
    /\ IdleParse

(***************************************************************************)
(* Film Forum: main().                                                     *)
(***************************************************************************)
\* total=3 of the Retry policy
RetryTotal == 3

\* KeepLastGoodOrRaise with the exception swallowed whether or not OUT_PATH exists
KeepLastGoodAlways ==
    /\ exitCode' = <<0>>
    /\ pc' = "exit"
    /\ file' = file

\* "keep last-known-good": return 0 when OUT_PATH exists, else raise
KeepLastGoodOrRaise ==
    /\ exitCode' = IF file # NoFile THEN <<0>> ELSE <<1>>
    /\ pc' = "exit"
    /\ file' = file

\* a transient failure (status 429/5xx, connect or read error) that urllib3 retries
FFFetchRetry ==
    /\ pipeline = "filmforum" /\ pc = "fetch"
    /\ retries < RetryTotal
    /\ retries' = retries + 1
    /\ UNCHANGED <<pipeline, pc, exitCode, file, prior, today, fetched, layout,
                   day_numbers, dates, panelIdx, daysSeen, rowsDone, row, day, item,
                   spanIdx, raw_time, films, screenings, text, fields, meta>>

\* fetch_html raises: retries exhausted, or a status raise_for_status rejects
FFFetchFail ==
    /\ pipeline = "filmforum" /\ pc = "fetch"
    /\ \E kind \in {"transient", "status"} : kind = "transient" => retries = RetryTotal
    /\ fetched' = "failed"
    /\ retries' = 0
    /\ KeepLastGoodOrRaise
    /\ UNCHANGED <<pipeline, prior, today, layout, day_numbers, dates, panelIdx,
                   daysSeen, rowsDone, row, day, item, spanIdx, raw_time, films,
                   screenings, text, fields, meta>>

FFFetchOk ==
    /\ pipeline = "filmforum" /\ pc = "fetch"
    /\ fetched' = "ok"
    /\ retries' = 0
    /\ pc' = "locate"
    /\ UNCHANGED <<pipeline, exitCode, file, prior, today, layout, day_numbers,
                   dates, panelIdx, daysSeen, rowsDone, row, day, item, spanIdx,
                   raw_time, films, screenings, text, fields, meta>>

\* div.module.showtimes-table is missing, or it holds no day panel
FFLocateMissing ==
    /\ pipeline = "filmforum" /\ pc = "locate"
    /\ \E l \in {"no_module", "no_panels"} : layout' = l
    /\ KeepLastGoodOrRaise
    /\ UNCHANGED <<pipeline, prior, today, retries, fetched, day_numbers, dates, panelIdx,
                   daysSeen, rowsDone, row, day, item, spanIdx, raw_time, films,
                   screenings, text, fields, meta>>

\* the loop over the panels that collects day_numbers
FFExtractDayNumbers ==
    /\ pipeline = "filmforum" /\ pc = "locate"
    /\ \E panels \in SeqsOf(PanelComments, 1, MaxPanels) :
         LET dns == [i \in 1..Len(panels) |-> extract_day_number_from_panel(panels[i])]
         IN IF \E i \in 1..Len(dns) : dns[i] = NoInt
            THEN /\ layout' = "no_comment"
                 /\ KeepLastGoodOrRaise
                 /\ UNCHANGED day_numbers
            ELSE /\ layout' = "ok"
                 /\ day_numbers' = [i \in 1..Len(dns) |-> dns[i][1]]
                 /\ pc' = "dates"
                 /\ UNCHANGED <<exitCode, file>>
    /\ UNCHANGED <<pipeline, prior, today, retries, fetched, dates, panelIdx, daysSeen,
                   rowsDone, row, day, item, spanIdx, raw_time, films, screenings,
                   text, fields, meta>>

\* dates = infer_week_dates(...); a ValueError of date() is caught nowhere
FFInferDates ==
    /\ pipeline = "filmforum" /\ pc = "dates"
    /\ LET r == infer_week_dates(day_numbers, today)
       IN IF r.ok
          THEN /\ dates' = r.value
               /\ panelIdx' = 1
               /\ pc' = "rows"
               /\ UNCHANGED exitCode
          ELSE /\ exitCode' = <<1>>
               /\ pc' = "exit"
               /\ UNCHANGED <<dates, panelIdx>>
    /\ UNCHANGED <<pipeline, file, prior, today, retries, fetched, layout, day_numbers,
                   daysSeen, rowsDone, row, day, item, spanIdx, raw_time, films,
                   screenings, text, fields, meta>>

\* detail_url of a row: a path-absolute href is prefixed with the site origin
RowDetailUrl(r) ==
    LET h == Strip(r.href)
    IN IF Len(h) > 0 /\ h[1] = "/" THEN FilmForumBase \o h ELSE h

FilmForumFilm(r) ==
    [title |-> clean_title(r.title), director |-> None, year |-> NoInt,
     runtime |-> NoInt, format |-> None, poster_url |-> None,
     detail_url |-> RowDetailUrl(r)]

\* one iteration of "for row in panel.find_all('p')" up to the span loop
FFRow ==
    /\ pipeline = "filmforum" /\ pc = "rows"
    /\ rowsDone < MaxRows
    /\ \E r \in RowInputs :
         IF r.kind # "film" \/ RowDetailUrl(r) = <<>> \/ r.nspans = 0
         THEN /\ row' = NoRow
              /\ UNCHANGED <<films, pc>>
         ELSE LET film_id == slug_from_url(RowDetailUrl(r))
              IN /\ row' = r
                 /\ films' = IF film_id \in DOMAIN films THEN films
                              ELSE films @@ (film_id :> FilmForumFilm(r))
                 /\ pc' = "spans"
    /\ rowsDone' = rowsDone + 1
    /\ spanIdx' = 0
    /\ UNCHANGED <<pipeline, exitCode, file, prior, today, retries, fetched, layout,
                   day_numbers, dates, panelIdx, daysSeen, day, item, raw_time,
                   screenings, text, fields, meta>>

\* FilmForumScreening with film_id taken from the raw href instead of the slug
FilmForumScreeningRawHref(r, panel_date, p) ==
    LET base == [theater_id |-> "filmforum", date |-> panel_date, time |-> p.t,
                 status |-> "available", ticket_url |-> None,
                 film_id |-> r.href, notes |-> p.note]
    IN IF p.tags # <<>> THEN base @@ [tags |-> p.tags] ELSE base

FilmForumScreening(r, panel_date, p) ==
    LET base == [theater_id |-> "filmforum", date |-> panel_date, time |-> p.t,
                 status |-> "available", ticket_url |-> None,
                 film_id |-> slug_from_url(RowDetailUrl(r)), notes |-> p.note]
    IN IF p.tags # <<>> THEN base @@ [tags |-> p.tags] ELSE base

\* one iteration of "for sp in spans"
FFSpan ==
    /\ pipeline = "filmforum" /\ pc = "spans"
    /\ spanIdx < row.nspans
    /\ \E content \in SlotTexts :
         LET raw == Strip(content)
             p == parse_time_and_tags(raw)
         IN /\ raw_time' = raw
            /\ screenings' = IF p.t = None THEN screenings
                             ELSE Append(screenings,
                                         FilmForumScreening(row, dates[panelIdx], p))
    /\ spanIdx' = spanIdx + 1
    /\ UNCHANGED <<pipeline, pc, exitCode, file, prior, today, retries, fetched, layout,
                   day_numbers, dates, panelIdx, daysSeen, rowsDone, row, day, item,
                   films, text, fields, meta>>

\* the spans of the row are exhausted; the loop variables are dead from here on
FFEndRow ==
    /\ pipeline = "filmforum" /\ pc = "spans"
    /\ spanIdx = row.nspans
    /\ pc' = "rows"
    /\ row' = NoRow
    /\ raw_time' = None
    /\ spanIdx' = 0
    /\ UNCHANGED <<pipeline, exitCode, file, prior, today, retries, fetched, layout,
                   day_numbers, dates, panelIdx, daysSeen, rowsDone, day, item,
                   films, screenings, text, fields, meta>>

\* the rows of the panel are exhausted and zip(panels, dates) has another pair
FFNextPanel ==
    /\ pipeline = "filmforum" /\ pc = "rows"
    /\ panelIdx < Len(dates)
    /\ panelIdx' = panelIdx + 1
    /\ UNCHANGED <<pipeline, pc, exitCode, file, prior, today, retries, fetched, layout,
                   day_numbers, dates, daysSeen, rowsDone, row, day, item, spanIdx,
                   raw_time, films, screenings, text, fields, meta>>

\* json.dump(out) into OUT_PATH, return 0
FFWrite ==
    /\ pipeline = "filmforum" /\ pc = "rows"
    /\ panelIdx = Len(dates)
    /\ file' = <<OutDoc>>
    /\ exitCode' = <<0>>
    /\ pc' = "exit"
    /\ UNCHANGED <<pipeline, prior, today, retries, fetched, layout, day_numbers, dates,
                   panelIdx, daysSeen, rowsDone, row, day, item, spanIdx, raw_time,
                   films, screenings, text, fields, meta>>

(***************************************************************************)
(* Metrograph: main().                                                     *)
(***************************************************************************)
DayPrefix == <<"c", "a", "l", "e", "n", "d", "a", "r", "-", "l", "i", "s", "t", "-", "d", "a", "y", "-">>

\* id attribute of a .calendar-list-day element (<<>>: no id attribute)
DayIds == {<<>>, <<"c", "a", "l", "e", "n", "d", "a", "r", "-", "l", "i", "s", "t", "-", "d", "a", "y", "-", "n", "o", "n", "e">>, DayPrefix, <<"c", "a", "l", "e", "n", "d", "a", "r", "-", "l", "i", "s", "t", "-", "d", "a", "y", "-", "2", "0", "2", "4", "-", "1", "1", "-", "0", "5">>}

\* a .calendar-list-day element: id, class list, rendered text
DayInputs == [id : DayIds, classes : {{"calendar-list-day"}, {"calendar-list-day", "closed"}},
              text : {<<"C", "l", "o", "s", "e", "d">>}]

MetrographHrefs == {<<>>, <<"/", "f", "?", "v", "i", "s", "t", "a", "_", "f", "i", "l", "m", "_", "i", "d", "=", "7">>}
MetrographTitles == {<<"R", "a", "n">>, <<" ", "r", "a", "n", "!">>}

\* what else an item carries: poster src, .film-metadata text, .film-description
\* text (None: the element is missing)
ItemExtras ==
    { [poster |-> None, metadata |-> <<" ", "/", " ", "1", "9", "8", "5", " ", "/", " ", "1", "6", "2", "m", "i", "n", " ", "/", " ", "3", "5", "m", "m">>, description |-> <<"Q", "&", "A">>],
      [poster |-> <<"p", ".", "j", "p", "g">>, metadata |-> None, description |-> None] }

\* a film item: has a.title or not, its href and text, its extras, and the number
\* of .showtimes links
ItemInputs ==
    {[title_a |-> FALSE, href |-> <<>>, title |-> <<>>, poster |-> None, metadata |-> None,
      description |-> None, nshow |-> 0]}
    \cup {[title_a |-> TRUE, href |-> h, title |-> t, poster |-> x.poster,
           metadata |-> x.metadata, description |-> x.description, nshow |-> n] :
          h \in MetrographHrefs, t \in MetrographTitles, x \in ItemExtras,
          n \in 0..MaxSpans}

\* a .showtimes link: text, class list, href (None: no href attribute)
ShowtimeInputs ==
    { [text |-> <<"7", ":", "0", "0", "p", "m">>, classes |-> {}, href |-> <<"t", "?", "a", "&", "a", "m", "p", ";", "b">>],
      [text |-> <<"7", ":", "0", "0", "p", "m">>, classes |-> {"sold_out"}, href |-> <<"t", "?", "a", "&", "a", "m", "p", ";", "b">>],
      [text |-> <<"9", ":", "3", "0", "p", "m">>, classes |-> {}, href |-> None] }

\* urljoin(BASE, href) for an empty, a path-absolute or a relative href
UrlJoin(base, href) ==
    IF href = <<>> THEN base
    ELSE IF href[1] = "/" THEN base \o href
    ELSE base \o <<"/">> \o href

\* requests.get raises, or raise_for_status does; nothing catches it
MGFetchFail ==
    /\ pipeline = "metrograph" /\ pc = "fetch"
    /\ fetched' = "failed"
    /\ exitCode' = <<1>>
    /\ pc' = "exit"
    /\ UNCHANGED <<pipeline, file, prior, today, retries, layout, day_numbers, dates,
                   panelIdx, daysSeen, rowsDone, row, day, item, spanIdx, raw_time,
                   films, screenings, text, fields, meta>>

MGFetchOk ==
    /\ pipeline = "metrograph" /\ pc = "fetch"
    /\ fetched' = "ok"
    /\ pc' = "days"
    /\ UNCHANGED <<pipeline, exitCode, file, prior, today, retries, layout, day_numbers,
                   dates, panelIdx, daysSeen, rowsDone, row, day, item, spanIdx,
                   raw_time, films, screenings, text, fields, meta>>

\* date_str of a day element
DayDateStr(d) == Replace(d.id, DayPrefix, <<>>, 1)

\* the two "continue" tests at the top of the day loop
DaySkipped(d) ==
    \/ ~HasAt(d.id, DayPrefix, 1)
    \/ DayDateStr(d) \in {<<"n", "o", "n", "e">>, <<>>}

\* ClosedRecord built like a showing, with empty time and ticket_url keys
ClosedRecordWithTime(d) ==
    [theater_id |-> "metrograph", date |-> DayDateStr(d), status |-> "closed",
     time |-> None, ticket_url |-> None, note |-> Strip(d.text)]

ClosedRecord(d) ==
    [theater_id |-> "metrograph", date |-> DayDateStr(d), status |-> "closed",
     note |-> Strip(d.text)]

\* one iteration of "for day in soup.select('.calendar-list-day')" up to the item loop
MGDay ==
    /\ pipeline = "metrograph" /\ pc = "days"
    /\ daysSeen < MaxPanels
    /\ \E d \in DayInputs :
         /\ day' = d
         /\ IF DaySkipped(d) THEN UNCHANGED <<screenings, pc>>
            ELSE IF "closed" \in d.classes
                 THEN /\ screenings' = Append(screenings, ClosedRecord(d))
                      /\ UNCHANGED pc
                 ELSE /\ pc' = "items"
                      /\ UNCHANGED screenings
    /\ daysSeen' = daysSeen + 1
    /\ UNCHANGED <<pipeline, exitCode, file, prior, today, retries, fetched, layout,
                   day_numbers, dates, panelIdx, rowsDone, row, item, spanIdx, raw_time,
                   films, text, fields, meta>>

ItemDetailUrl(it) == UrlJoin(MetrographBase, it.href)

ItemFilmId(it) == metrograph_film_id(ItemDetailUrl(it), Strip(it.title))

MetrographFilm(it) ==
    LET md == IF it.metadata # None THEN parse_metadata(Strip(it.metadata))
              ELSE <<None, NoInt, NoInt, None>>
    IN [film_id |-> ItemFilmId(it), title |-> Strip(it.title), director |-> md[1],
        year |-> md[2], runtime_min |-> md[3], format |-> md[4],
        poster_url |-> it.poster, detail_url |-> ItemDetailUrl(it)]

\* out["films"][film_id] = {...}: dict item assignment
SetItem(d, k, v) == [x \in DOMAIN d \cup {k} |-> IF x = k THEN v ELSE d[x]]

\* one iteration of "for item in day.select(...)" up to the showtime loop
MGItem ==
    /\ pipeline = "metrograph" /\ pc = "items"
    /\ rowsDone < MaxRows
    /\ \E it \in ItemInputs :
         IF ~it.title_a
         THEN /\ item' = [kind |-> "none"]
              /\ UNCHANGED <<films, pc>>
         ELSE /\ item' = it
              /\ films' = SetItem(films, ItemFilmId(it), MetrographFilm(it))
              /\ pc' = "showtimes"
    /\ rowsDone' = rowsDone + 1
    /\ spanIdx' = 0
    /\ UNCHANGED <<pipeline, exitCode, file, prior, today, retries, fetched, layout,
                   day_numbers, dates, panelIdx, daysSeen, row, day, raw_time,
                   screenings, text, fields, meta>>

MetrographScreening(d, it, st) ==
    LET is_sold_out == "sold_out" \in st.classes
    IN [theater_id |-> "metrograph", date |-> DayDateStr(d), time |-> Strip(st.text),
        status |-> IF is_sold_out THEN "sold_out" ELSE "available",
        ticket_url |-> IF is_sold_out THEN None ELSE clean_href(st.href),
        film_id |-> ItemFilmId(it),
        notes |-> IF it.description # None THEN Strip(it.description) ELSE None]

\* one iteration of "for st in item.select('.showtimes a')"
MGShowtime ==
    /\ pipeline = "metrograph" /\ pc = "showtimes"
    /\ spanIdx < item.nshow
    /\ \E st \in ShowtimeInputs :
         screenings' = Append(screenings, MetrographScreening(day, item, st))
    /\ spanIdx' = spanIdx + 1
    /\ UNCHANGED <<pipeline, pc, exitCode, file, prior, today, retries, fetched, layout,
                   day_numbers, dates, panelIdx, daysSeen, rowsDone, row, day, item,
                   raw_time, films, text, fields, meta>>

\* the showtimes of the item are exhausted; the loop variable is dead from here on
MGEndItem ==
    /\ pipeline = "metrograph" /\ pc = "showtimes"
    /\ spanIdx = item.nshow
    /\ pc' = "items"
    /\ item' = [kind |-> "none"]
    /\ spanIdx' = 0
    /\ UNCHANGED <<pipeline, exitCode, file, prior, today, retries, fetched, layout,
                   day_numbers, dates, panelIdx, daysSeen, rowsDone, row, day,
                   raw_time, films, screenings, text, fields, meta>>

\* the items of the day are exhausted
MGEndDay ==
    /\ pipeline = "metrograph" /\ pc = "items"
    /\ pc' = "days"
    /\ UNCHANGED <<pipeline, exitCode, file, prior, today, retries, fetched, layout,
                   day_numbers, dates, panelIdx, daysSeen, rowsDone, row, day, item,
                   spanIdx, raw_time, films, screenings, text, fields, meta>>

\* json.dump(out) into docs/metrograph.json; main() returns
MGWrite ==
    /\ pipeline = "metrograph" /\ pc = "days"
    /\ file' = <<OutDoc>>
    /\ exitCode' = <<0>>
    /\ pc' = "exit"
    /\ layout' = IF daysSeen = 0 THEN "no_days" ELSE "ok"
    /\ UNCHANGED <<pipeline, prior, today, retries, fetched, day_numbers, dates,
                   panelIdx, daysSeen, rowsDone, row, day, item, spanIdx, raw_time,
                   films, screenings, text, fields, meta>>

Next ==
    \/ FFFetchRetry
    \/ FFFetchFail
    \/ FFFetchOk
    \/ FFLocateMissing
    \/ FFExtractDayNumbers
    \/ FFInferDates
    \/ FFRow
    \/ FFSpan
    \/ FFEndRow
    \/ FFNextPanel
    \/ FFWrite
    \/ MGFetchFail
    \/ MGFetchOk
    \/ MGDay
    \/ MGItem
    \/ MGShowtime
    \/ MGEndItem
    \/ MGEndDay
    \/ MGWrite

Spec == Init /\ [][Next]_vars

(***************************************************************************)
(* infer_week_dates on its own: the inputs are drawn in the initial state. *)
(***************************************************************************)
DateTodays == {<<2023, 2>>, <<2023, 12>>, <<2024, 1>>, <<2024, 2>>, <<2024, 11>>}
DateDayNumbers == {1, 2, 28, 29, 30, 31}

IdlePipeline ==
    /\ pipeline = "none"
    /\ exitCode = <<>>
    /\ file = NoFile
    /\ prior = NoFile
    /\ retries = 0
    /\ fetched = "pending"
    /\ layout = "unknown"
    /\ panelIdx = 0
    /\ daysSeen = 0
    /\ rowsDone = 0
    /\ row = NoRow
    /\ day = [kind |-> "none"]
    /\ item = [kind |-> "none"]
    /\ spanIdx = 0
    /\ raw_time = None
    /\ films = <<>>
    /\ screenings = <<>>

InitDates ==
    /\ IdlePipeline
    /\ IdleParse
    /\ pc = "call"
    /\ today \in DateTodays
    /\ day_numbers \in SeqsOf(DateDayNumbers, 0, MaxDayNumbers)
    /\ dates = <<>>

\* dates = infer_week_dates(day_numbers, today); pc tells return from raise
CallInferWeekDates ==
    /\ pc = "call"
    /\ LET r == infer_week_dates(day_numbers, today)
       IN /\ dates' = r.value
          /\ pc' = IF r.ok THEN "return" ELSE "raise"
    /\ UNCHANGED <<pipeline, exitCode, file, prior, today, retries, fetched, layout,
                   day_numbers, panelIdx, daysSeen, rowsDone, row, day, item, spanIdx,
                   raw_time, films, screenings, text, fields, meta>>

NextDates == CallInferWeekDates

SpecDates == InitDates /\ [][NextDates]_vars

(***************************************************************************)
(* parse_metadata on its own: text is built from '/'-joined fields.        *)
(***************************************************************************)
MetaFields ==
    { <<"H", "u", " ", "B", "o", " ">>,
      <<" ", "2", "0", "1", "8", " ">>,
      <<" ", "2", "3", "0", "m", "i", "n", " ">>,
      <<" ", "D", "C", "P">>,
      <<>>,
      <<"c", "1", "9", "3", "2">>,
      <<" ", "7", "3", " ", "m", "i", "n">>,
      <<"1", "9", "3", "2", "-", "3", "3", " ", "x", "9", "0", "m", "i", "n">> }

\* "/".join(fs)
RECURSIVE JoinSlash(_)
JoinSlash(fs) ==
    IF Len(fs) = 0 THEN <<>>
    ELSE IF Len(fs) = 1 THEN fs[1]
    ELSE fs[1] \o <<"/">> \o JoinSlash(Tail(fs))

InitMeta ==
    /\ IdlePipeline
    /\ pc = "call"
    /\ today = NoClock
    /\ day_numbers = <<>>
    /\ dates = <<>>
    /\ fields \in SeqsOf(MetaFields, 1, MaxParts)
    /\ text = JoinSlash(fields)
    /\ meta = None

\* meta = parse_metadata(text)
CallParseMetadata ==
    /\ pc = "call"
    /\ meta' = parse_metadata(text)
    /\ pc' = "return"
    /\ UNCHANGED <<pipeline, exitCode, file, prior, today, retries, fetched, layout,
                   day_numbers, dates, panelIdx, daysSeen, rowsDone, row, day, item,
                   spanIdx, raw_time, films, screenings, text, fields>>

NextMeta == CallParseMetadata

SpecMeta == InitMeta /\ [][NextMeta]_vars

(***************************************************************************)
(* Properties of the pipelines (specification Spec).                       *)
(***************************************************************************)

\* C1: in each pipeline, a run whose fetch fails while a prior output file
\* exists ends with exit code 0 and leaves the file as it was before the run.
FetchFailureKeepsLastGood ==
    (fetched = "failed" /\ prior # NoFile)
        => (pc = "exit" /\ exitCode = <<0>> /\ file = prior)

\* C2: in each pipeline, a run whose fetch fails while no prior output file
\* exists ends with a non-zero exit and no output file exists afterwards.
FetchFailureFirstRunFails ==
    (fetched = "failed" /\ prior = NoFile)
        => (pc = "exit" /\ exitCode = <<1>> /\ file = NoFile)

FirstRunFetchFailureSeen ==
    /\ pipeline = "filmforum"
    /\ fetched = "failed"
    /\ prior = NoFile
    /\ pc = "exit"

LayoutMissing == layout \in {"no_module", "no_panels", "no_comment", "no_days"}

\* C3: in each pipeline, markup without the expected anchor structure never
\* leads to a write: the run fails when no prior file exists and exits 0 with
\* the prior file untouched when one exists.
LayoutFailureNeverWrites ==
    LayoutMissing
        => /\ pc = "exit"
           /\ file = prior
           /\ exitCode = IF prior = NoFile THEN <<1>> ELSE <<0>>

\* C4: a run of either pipeline that has a prior output file exits with code 0,
\* whatever the fetch outcome and the markup; a non-zero exit occurs only when
\* no prior output file exists.
PriorFileImpliesExitZero ==
    (pc = "exit" /\ prior # NoFile) => exitCode = <<0>>

RefComplete(doc) ==
    \A i \in DOMAIN doc.screenings :
        "film_id" \in DOMAIN doc.screenings[i]
            => doc.screenings[i].film_id \in DOMAIN doc.films

\* C5: every film_id carried by a record of screenings is a key of films, in the
\* document being built after any sequence of days, rows and slots, and in the
\* file a successful run has written.
ReferentialCompleteness ==
    /\ RefComplete(OutDoc)
    /\ file # NoFile => RefComplete(file[1])

TwoFilmsWritten ==
    /\ pc = "exit"
    /\ exitCode = <<0>>
    /\ file = <<OutDoc>>
    /\ Cardinality(DOMAIN films) = 2
    /\ Len(screenings) >= 2
    /\ \E i \in DOMAIN screenings, j \in DOMAIN screenings :
         /\ "film_id" \in DOMAIN screenings[i]
         /\ "film_id" \in DOMAIN screenings[j]
         /\ screenings[i].film_id # screenings[j].film_id

\* C6: once a film_id is in the films map its Film record keeps the descriptive
\* fields of the first occurrence; no later occurrence overwrites them, in
\* either pipeline.
FirstOccurrenceWins ==
    [][\A id \in DOMAIN films : id \in DOMAIN films' /\ films'[id] = films[id]]_vars

CountClosed(s) == Cardinality({i \in DOMAIN s : s[i].status = "closed"})

ClosedShaped(rec) ==
    /\ rec.status = "closed"
    /\ "note" \in DOMAIN rec
    /\ DOMAIN rec \cap {"film_id", "time", "ticket_url"} = {}

ShowingShaped(rec) ==
    /\ rec.status \in {"available", "sold_out"}
    /\ {"film_id", "time"} \subseteq DOMAIN rec

\* the id of the day element is the prefix followed by a date
HasDateId(d) ==
    /\ Len(d.id) > Len(DayPrefix)
    /\ SubSeq(d.id, 1, Len(DayPrefix)) = DayPrefix
    /\ SubSeq(d.id, Len(DayPrefix) + 1, Len(d.id)) # <<"n", "o", "n", "e">>

\* what a step must do when the day containers picked out by closedDay are the
\* closed ones: such a container appends one closed record and opens no item
\* loop, nothing else adds a closed record, and every record is well shaped
ClosedDayRule(closedDay(_)) ==
    LET dayStep == pipeline = "metrograph" /\ daysSeen' = daysSeen + 1
    IN /\ (dayStep /\ closedDay(day'))
            => /\ Len(screenings') = Len(screenings) + 1
               /\ SubSeq(screenings', 1, Len(screenings)) = screenings
               /\ ClosedShaped(screenings'[Len(screenings')])
               /\ films' = films
               /\ pc' = "days"
       /\ ~(dayStep /\ closedDay(day'))
            => CountClosed(screenings') = CountClosed(screenings)
       /\ \A i \in DOMAIN screenings' :
            ClosedShaped(screenings'[i]) \/ ShowingShaped(screenings'[i])

MarkedClosed(d) == "closed" \in d.classes
MarkedClosedWithDate(d) == "closed" \in d.classes /\ HasDateId(d)

\* C7 as stated: each day container marked closed produces exactly one record,
\* with status "closed", a note and no film_id, time or ticket_url key, and no
\* film or showing record; every other record is "available" or "sold_out" and
\* carries a film_id and a time.
ClosedDayOneRecord == [][ClosedDayRule(MarkedClosed)]_vars

\* C7 amended: the same, for each day container marked closed whose id is
\* "calendar-list-day-" followed by a date other than "" and "none".
DatedClosedDayOneRecord == [][ClosedDayRule(MarkedClosedWithDate)]_vars

ClosedDayAfterShowing ==
    /\ pipeline = "metrograph"
    /\ pc = "days"
    /\ daysSeen = 2
    /\ MarkedClosedWithDate(day)
    /\ Len(screenings) = 2
    /\ ShowingShaped(screenings[1])
    /\ ClosedShaped(screenings[2])

SlotDigits == {"0", "1", "2", "3", "4", "5"}

\* every H:MM and HH:MM over SlotDigits
TimeStrings ==
    {h \o <<":">> \o m : h \in SeqsOf(SlotDigits, 1, 2), m \in SeqsOf(SlotDigits, 2, 2)}

\* every (TAG) with a tag of one or two letters
WrappedTags == {<<"(">> \o g \o <<")">> : g \in SeqsOf({"O", "C"}, 1, 2)}

\* s is a time of k+3 characters, optionally followed by one parenthesized tag
SlotForm(s, k) ==
    /\ Len(s) >= k + 3
    /\ SubSeq(s, 1, k + 3) \in TimeStrings
    /\ SubSeq(s, k + 4, Len(s)) \in WrappedTags \cup {<<>>}

\* C9: a slot string H:MM or HH:MM, optionally followed by one parenthesized
\* tag, yields the time unchanged, tags = [TAG] (or []) and notes = TAG (or
\* none), and one screening carrying them; any other string yields (no time,
\* no tags, the raw string as notes) and no screening, and the loop over the
\* slots goes on: the run neither ends nor leaves the row.
SlotParsing ==
    [][(pipeline = "filmforum" /\ spanIdx' = spanIdx + 1)
        => LET s == raw_time'
               p == parse_time_and_tags(s)
           IN /\ pc' = "spans" /\ exitCode' = <<>> /\ films' = films
              /\ IF \E k \in 1..2 : SlotForm(s, k)
                 THEN \E k \in 1..2 :
                        /\ SlotForm(s, k)
                        /\ LET t == SubSeq(s, 1, k + 3)
                               w == SubSeq(s, k + 4, Len(s))
                               g == SubSeq(w, 2, Len(w) - 1)
                               new == screenings'[Len(screenings')]
                           IN /\ p.t = t
                              /\ p.tags = IF w = <<>> THEN <<>> ELSE <<g>>
                              /\ p.note = IF w = <<>> THEN None ELSE g
                              /\ Len(screenings') = Len(screenings) + 1
                              /\ SubSeq(screenings', 1, Len(screenings)) = screenings
                              /\ new.time = t
                              /\ new.notes = p.note
                              /\ IF w = <<>> THEN "tags" \notin DOMAIN new
                                 ELSE "tags" \in DOMAIN new /\ new.tags = <<g>>
                 ELSE /\ p = [t |-> None, tags |-> <<>>, note |-> s]
                      /\ screenings' = screenings]_vars

\* the second slot of a row gave a screening after the first one gave none
SlotAfterUnparsedSlot ==
    /\ pipeline = "filmforum"
    /\ pc = "spans"
    /\ rowsDone = 1
    /\ spanIdx = 2
    /\ raw_time = <<"1", "2", ":", "3", "0", "(", "O", "C", ")">>
    /\ Len(screenings) = 1
    /\ screenings[1].time = <<"1", "2", ":", "3", "0">>
    /\ screenings[1].tags = <<<<"O", "C">>>>

(***************************************************************************)
(* Properties of infer_week_dates (specification SpecDates).               *)
(***************************************************************************)
NextMonth(ym) == IF ym[2] = 12 THEN <<ym[1] + 1, 1>> ELSE <<ym[1], ym[2] + 1>>

YearMonth(d) == <<d[1], d[2]>>

\* month rollovers among the first i day numbers
Descents(ds, i) == Cardinality({j \in 2..i : ds[j] < ds[j - 1]})

\* the triple the algorithm emits for position i, in closed form
Emitted(ds, ref, i) ==
    LET idx == (ref[2] - 1) + Descents(ds, i)
    IN <<ref[1] + (idx \div 12), (idx % 12) + 1, ds[i]>>

AllEmittedValid(ds, ref) ==
    \A i \in 1..Len(ds) :
        ValidDate(Emitted(ds, ref, i)[1], Emitted(ds, ref, i)[2], Emitted(ds, ref, i)[3])

\* C8: when the emitted triples are valid dates, the result has the length of
\* the input, element i has day day_numbers[i], element 1 lies in today's year
\* and month, and the (year, month) of element i is one month after that of
\* element i-1 (December rolling to January) when the day number decreased and
\* equal to it otherwise; the empty input gives the empty result; for
\* [29, 30, 31, 1, 2] the month advances once, at the step from 31 to 1.
InferWeekDatesCorrect ==
    (pc # "call" /\ AllEmittedValid(day_numbers, today))
        => /\ pc = "return"
           /\ Len(dates) = Len(day_numbers)
           /\ \A i \in 1..Len(dates) : dates[i][3] = day_numbers[i]
           /\ Len(dates) > 0 => YearMonth(dates[1]) = today
           /\ \A i \in 2..Len(dates) :
                YearMonth(dates[i]) =
                    IF day_numbers[i] < day_numbers[i - 1]
                    THEN NextMonth(YearMonth(dates[i - 1]))
                    ELSE YearMonth(dates[i - 1])
           /\ day_numbers = <<>> => dates = <<>>
           /\ day_numbers = <<29, 30, 31, 1, 2>>
                => /\ \A i \in 1..3 : YearMonth(dates[i]) = today
                   /\ \A i \in 4..5 : YearMonth(dates[i]) = NextMonth(today)

YearEndWeekInferred ==
    /\ pc = "return"
    /\ today = <<2023, 12>>
    /\ day_numbers = <<29, 30, 31, 1, 2>>
    /\ dates = <<<<2023, 12, 29>>, <<2023, 12, 30>>, <<2023, 12, 31>>,
                 <<2024, 1, 1>>, <<2024, 1, 2>>>>

(***************************************************************************)
(* Properties of parse_metadata (specification SpecMeta).                  *)
(***************************************************************************)
\* t is f without its leading and trailing spaces
IsTrimOf(t, f) ==
    \E a \in 0..Len(f) :
        /\ a + Len(t) <= Len(f)
        /\ \A j \in 1..Len(f) :
             IF j <= a \/ j > a + Len(t) THEN f[j] = " " ELSE f[j] = t[j - a]
        /\ Len(t) > 0 => (t[1] # " " /\ t[Len(t)] # " ")

\* f trimmed when that is not empty, else None
TrimmedOrNone(v, f) ==
    IF IsTrimOf(<<>>, f) THEN v = None ELSE v # None /\ IsTrimOf(v, f)

\* positions of f where a 4-digit token starts
YearStarts(f) ==
    {i \in 1..(Len(f) - 3) :
        /\ \A j \in i..(i + 3) : f[j] \in Digits
        /\ i = 1 \/ ~IsWordChar(f[i - 1])
        /\ i + 4 > Len(f) \/ ~IsWordChar(f[i + 4])}

\* <<i, e>>: the digits f[i..e] are followed by optional spaces and "min"
RuntimeSpans(f) ==
    {ie \in (1..Len(f)) \X (1..Len(f)) :
        /\ ie[1] <= ie[2]
        /\ \A j \in ie[1]..ie[2] : f[j] \in Digits
        /\ \E m \in (ie[2] + 1)..(Len(f) - 2) :
             /\ \A j \in (ie[2] + 1)..(m - 1) : f[j] = " "
             /\ f[m] = "m" /\ f[m + 1] = "i" /\ f[m + 2] = "n"}

\* the leftmost element of a set of positions or spans
Leftmost(S, key(_)) == CHOOSE x \in S : \A y \in S : key(x) <= key(y)

SelfKey(x) == x
FirstKey(x) == x[1]

ExpectedYear(fs) ==
    IF Len(fs) < 2 \/ YearStarts(fs[2]) = {} THEN NoInt
    ELSE LET f == fs[2]
             i == Leftmost(YearStarts(f), SelfKey)
         IN <<1000 * DigitVal(f[i]) + 100 * DigitVal(f[i + 1])
               + 10 * DigitVal(f[i + 2]) + DigitVal(f[i + 3])>>

ExpectedRuntime(fs) ==
    IF Len(fs) < 3 \/ RuntimeSpans(fs[3]) = {} THEN NoInt
    ELSE LET f == fs[3]
             ie == Leftmost(RuntimeSpans(f), FirstKey)
         IN <<int(SubSeq(f, ie[1], ie[2]))>>

\* well-formed "D / Y / Rmin / F" strings with the values they denote
WellFormed ==
    { [text |-> <<"H", "u", " ", "B", "o", " ", "/", " ", "2", "0", "1", "8", " ", "/", " ", "2", "3", "0", "m", "i", "n", " ", "/", " ", "D", "C", "P">>,
       result |-> <<<<"H", "u", " ", "B", "o">>, <<2018>>, <<230>>, <<"D", "C", "P">>>>] }

====
